---- MODULE Spec2Model ----
(***************************************************************************)
(* A model of src/src/mysql.rs: the value decoder row_value_to_json and    *)
(* the result assembler rows_to_json.                                      *)
(*                                                                         *)
(* A raw value (sqlx MySqlValueRef) is a record                            *)
(*   [type_name, is_null, payload]                                         *)
(* where payload says which Rust type T the bytes decode to (payload.ty)   *)
(* and to what value (payload[T]); a typed decode attempt                  *)
(* try_decode::<T>() is Ok exactly when payload.ty = T.  The payload       *)
(* Corrupt decodes as no type at all.                                      *)
(*                                                                         *)
(* A JSON value (serde_json::Value) is a record tagged t, one of "Null",   *)
(* "Bool", "Number", "String", "Array", "Object", with its content beside  *)
(* the tag.  A Number holds serde_json's N: PosInt(u64), NegInt(i64) or    *)
(* Float(f64).                                                             *)
(*                                                                         *)
(* A 64-bit integer is its bit pattern, four 16-bit limbs, most            *)
(* significant first: an i64 reads the pattern in two's complement, a u64  *)
(* unsigned.                                                               *)
(*                                                                         *)
(* A Result<T, String> is [ok |-> TRUE, val |-> T] or                      *)
(* [ok |-> FALSE, err |-> String].                                         *)
(***************************************************************************)
EXTENDS Integers, Sequences, FiniteSets, TLC

VARIABLES
    pc,       \* position of rows_to_json: "entry", "rows", "cols", "done"
    nrows,    \* rows.len() of the argument
    ncols,    \* row.columns().len() of the row being iterated
    rows,     \* the part of the argument read so far, row by row, cell by cell
    map,      \* the local `map` of the row being iterated
    output,   \* the local `output`
    result,   \* the returned value, NoResult while running
    dcall,    \* the argument of a direct call of row_value_to_json
    dres      \* its returned value, NoResult before the call returns

vars == <<pc, nrows, ncols, rows, map, output, result, dcall, dres>>

(***************************************************************************)
(* Bounds of the model.                                                    *)
(***************************************************************************)
MaxRows == 2
MaxCells == 4

(***************************************************************************)
(* Result<T, String>                                                       *)
(***************************************************************************)
Ok(v) == [ok |-> TRUE, val |-> v]

Err(e) == [ok |-> FALSE, err |-> e]

NoResult == [ok |-> FALSE, err |-> "<running>"]

(***************************************************************************)
(* serde_json::Value                                                       *)
(***************************************************************************)
JsonNull == [t |-> "Null"]

JsonBool(b) == [t |-> "Bool", b |-> b]

JsonNumber(n) == [t |-> "Number", n |-> n]

JsonObject(o) == [t |-> "Object", o |-> o]

(***************************************************************************)
(* 64-bit integers and serde_json::Number                                  *)
(***************************************************************************)
LimbBase == 2 ^ 16

Word(a, b, c, d) == <<a, b, c, d>>

\* v as u64 of a u8 or another small non-negative value
SmallWord(n) == Word(0, 0, 0, n)

\* the sign bit of the pattern
IsNegative(w) == w[1] >= LimbBase \div 2

RECURSIVE Inc(_)
\* w + 1 modulo the width of w
Inc(w) ==
    IF w = <<>> THEN <<>>
    ELSE IF w[Len(w)] + 1 < LimbBase THEN [w EXCEPT ![Len(w)] = @ + 1]
    ELSE Inc(SubSeq(w, 1, Len(w) - 1)) \o <<0>>

\* the pattern of -v in two's complement: complement, then add one
Negate(w) == Inc([i \in 1..Len(w) |-> (LimbBase - 1) - w[i]])

\* the integer a pattern stands for, as sign and magnitude
SignedValue(w) ==
    IF IsNegative(w) THEN [neg |-> TRUE, mag |-> Negate(w)] ELSE [neg |-> FALSE, mag |-> w]

UnsignedValue(w) == [neg |-> FALSE, mag |-> w]

PosInt(w) == [k |-> "PosInt", w |-> w]

NegInt(w) == [k |-> "NegInt", w |-> w]

Float(f) == [k |-> "Float", f |-> f]

\* the integer an integer Number stands for
NumberValue(n) == IF n.k = "NegInt" THEN SignedValue(n.w) ELSE UnsignedValue(n.w)

\* a u64 converted through i64
JsonFromU64_AsI64(w) == JsonNumber(IF IsNegative(w) THEN NegInt(w) ELSE PosInt(w))

\* impl From<u64> for Number: PosInt(v)
JsonFromU64(w) == JsonNumber(PosInt(w))

\* impl From<i64> for Number: NegInt(v) if v < 0, else PosInt(v as u64)
JsonFromI64(w) == JsonNumber(IF IsNegative(w) THEN NegInt(w) ELSE PosInt(w))

\* impl From<u8> for Number: PosInt(v as u64)
JsonFromU8(b) == JsonNumber(PosInt(SmallWord(b)))

JsonString(s) == [t |-> "String", s |-> s]

JsonArray(a) == [t |-> "Array", a |-> a]

\* impl From<f32> / From<f64> for Value: a finite float is a Number, a
\* non-finite one (NaN, infinity) is Null.  A float is [finite, n].
JsonFromFloat(f) == IF f.finite THEN JsonNumber(Float(f)) ELSE JsonNull

\* Vec<u8> -> Value::Array, one Number per byte, in order.
JsonFromBytes(b) == JsonArray([i \in 1..Len(b) |-> JsonFromU8(b[i])])

(***************************************************************************)
(* Typed decode attempts of the driver.                                    *)
(***************************************************************************)
\* the payload of a raw value: the Rust type T its bytes decode to, and the
\* decoded value under the key T
Payload(T, v) == [x \in {"ty", T} |-> IF x = "ty" THEN T ELSE v]

Corrupt == [x \in {"ty"} |-> "corrupt"]

\* serde_json::from_slice on the texts of JsonTexts; any other text is no JSON
ParseJson(text) ==
    CASE text = "null"      -> Ok(JsonNull)
      [] text = "\"a\""     -> Ok(JsonString("a"))
      [] text = "[1]"       -> Ok(JsonArray(<<JsonFromU64(SmallWord(1))>>))
      [] text = "{\"a\":1}" -> Ok(JsonObject([k \in {"a"} |-> JsonFromU64(SmallWord(1))]))
      [] OTHER              -> Err("expected value")

\* Decode for JsonValue parses the payload's text; every other T takes the
\* payload's value when the payload is of type T
try_decode(row_value, T) ==
    IF T = "JsonValue"
    THEN IF row_value.payload.ty = "String"
         THEN ParseJson(row_value.payload["String"]) ELSE Err("mismatched types")
    ELSE IF row_value.payload.ty = T
         THEN Ok(row_value.payload[T]) ELSE Err("mismatched types")

\* Display of the time crate's Date, Time, PrimitiveDateTime, OffsetDateTime:
\* a temporal value carries its rendering.
to_string(v) == v.text

(***************************************************************************)
(* row_value_to_json: the arms of the match, in source order.              *)
(***************************************************************************)
TextNames == {"CHAR", "VARCHAR", "TINYTEXT", "TEXT", "MEDIUMTEXT", "LONGTEXT", "ENUM"}

SignedNames == {"TINYINT", "SMALLINT", "INT", "MEDIUMINT", "BIGINT"}

UnsignedNames == {"TINYINT UNSIGNED", "SMALLINT UNSIGNED", "INT UNSIGNED",
                  "MEDIUMINT UNSIGNED", "BIGINT UNSIGNED", "YEAR"}

BlobNames == {"TINIYBLOB", "MEDIUMBLOB", "BLOB", "LONGBLOB"}

\* a failed decode replaced by the number type's default instead of Null
DecodeOrNull_Zero(d, json) == IF d.ok THEN json ELSE JsonFromU64(SmallWord(0))

\* if let Ok(v) = ...try_decode::<T>() { f(v) } else { JsonValue::Null }
DecodeOrNull(d, json) == IF d.ok THEN json ELSE JsonNull

\* the error text without the type name
UnsupportedType_NoName(name) == Err("Unsupported type")

UnsupportedType(name) == Err("Unsupported type: " \o name)

\* the JSON payload decoded as text and wrapped in a String
DecodeJson_AsString(row_value) ==
    LET d == try_decode(row_value, "String")
    IN  IF d.ok THEN JsonString(d.val) ELSE JsonNull

\* ValueRef::to_owned(&row_value).try_decode().unwrap_or_default()
DecodeJson(row_value) ==
    LET d == try_decode(row_value, "JsonValue")
    IN  IF d.ok THEN d.val ELSE JsonNull

MatchTypeName(row_value) ==
    LET name == row_value.type_name
        D(T) == try_decode(row_value, T)
    IN  CASE name \in TextNames     -> Ok(DecodeOrNull(D("String"), JsonString(D("String").val)))
          [] name = "FLOAT"         -> Ok(DecodeOrNull(D("f32"), JsonFromFloat(D("f32").val)))
          [] name = "DOUBLE"        -> Ok(DecodeOrNull(D("f64"), JsonFromFloat(D("f64").val)))
          [] name \in SignedNames   -> Ok(DecodeOrNull(D("i64"), JsonFromI64(D("i64").val)))
          [] name \in UnsignedNames -> Ok(DecodeOrNull(D("u64"), JsonFromU64(D("u64").val)))
          [] name = "BOOLEAN"       -> Ok(DecodeOrNull(D("bool"), JsonBool(D("bool").val)))
          [] name = "DATE"          -> Ok(DecodeOrNull(D("Date"), JsonString(to_string(D("Date").val))))
          [] name = "TIME"          -> Ok(DecodeOrNull(D("Time"), JsonString(to_string(D("Time").val))))
          [] name = "DATETIME"      -> Ok(DecodeOrNull(D("PrimitiveDateTime"),
                                            JsonString(to_string(D("PrimitiveDateTime").val))))
          [] name = "TIMESTAMP"     -> Ok(DecodeOrNull(D("OffsetDateTime"),
                                            JsonString(to_string(D("OffsetDateTime").val))))
          [] name = "JSON"          -> Ok(DecodeJson(row_value))
          [] name \in BlobNames     -> Ok(DecodeOrNull(D("Vec<u8>"), JsonFromBytes(D("Vec<u8>").val)))
          [] name = "NULL"          -> Ok(JsonNull)
          [] OTHER                  -> UnsupportedType(name)

\* the type name dispatched on before the null flag is looked at
row_value_to_json_DispatchFirst(row_value) == MatchTypeName(row_value)

row_value_to_json(row_value) ==
    IF row_value.is_null THEN Ok(JsonNull) ELSE MatchTypeName(row_value)

(***************************************************************************)
(* Inputs.  A cell of a row is [name, raw]: the column's name from the     *)
(* row's metadata and the outcome of row.try_get_raw(i), Ok(raw value) or  *)
(* Err(driver error).                                                      *)
(***************************************************************************)
ColumnNames == {"a", "b"}

IntValue == [type_name |-> "INT", is_null |-> FALSE, payload |-> Payload("i64", SmallWord(7))]

CorruptIntValue == [type_name |-> "INT", is_null |-> FALSE, payload |-> Corrupt]

CorruptJsonValue == [type_name |-> "JSON", is_null |-> FALSE, payload |-> Corrupt]

GeometryValue == [type_name |-> "GEOMETRY", is_null |-> FALSE, payload |-> Corrupt]

NullGeometryValue == [type_name |-> "GEOMETRY", is_null |-> TRUE, payload |-> Corrupt]

AccessFault == "error occurred while decoding column"

RawResults == {Ok(IntValue), Ok(CorruptIntValue), Ok(CorruptJsonValue), Ok(GeometryValue),
               Ok(NullGeometryValue), Err(AccessFault)}

Cells == [name : ColumnNames, raw : RawResults]

\* number of cells read so far
RECURSIVE CellCount(_)
CellCount(rs) == IF rs = <<>> THEN 0 ELSE Len(Head(rs)) + CellCount(Tail(rs))

(***************************************************************************)
(* rows_to_json, one step per loop iteration.                              *)
(***************************************************************************)
EmptyMap == [k \in {} |-> JsonNull]

\* an insert that leaves out Null values
MapInsert_SkipNull(m, k, v) ==
    IF v = JsonNull THEN m ELSE [x \in (DOMAIN m) \cup {k} |-> IF x = k THEN v ELSE m[x]]

\* an insert that keeps the value of a present key
MapInsert_KeepFirst(m, k, v) ==
    [x \in (DOMAIN m) \cup {k} |-> IF x \in DOMAIN m THEN m[x] ELSE v]

\* HashMap::insert: a present key is overwritten
MapInsert(m, k, v) == [x \in (DOMAIN m) \cup {k} |-> IF x = k THEN v ELSE m[x]]

\* a retrieval error swallowed as Null instead of returned
CellToJson_AccessErrorAsNull(cell) ==
    IF cell.raw.ok THEN row_value_to_json(cell.raw.val) ELSE Ok(JsonNull)

\* row.try_get_raw(i).map_err(|e| e.to_string())?  then
\* row_value_to_json(row_value).map_err(|e| e.to_string())?
CellToJson(cell) ==
    IF cell.raw.ok THEN row_value_to_json(cell.raw.val) ELSE Err(cell.raw.err)

\* the map put in front of the output instead of at its end
Push_Front(out, m) == <<m>> \o out

\* Vec::push
Push(out, m) == Append(out, m)

\* the cell just read is added to the last row of the rows read so far
ReadCell(rs, cell) == [rs EXCEPT ![Len(rs)] = Append(@, cell)]

Init ==
    /\ pc = "entry"
    /\ nrows \in 0..MaxRows
    /\ ncols = 0
    /\ rows = <<>>
    /\ map = EmptyMap
    /\ output = <<>>
    /\ result = NoResult
    /\ dcall = NullGeometryValue
    /\ dres = NoResult

\* if rows.is_empty() { return Ok(vec![]); }
ReturnEmpty ==
    /\ pc = "entry"
    /\ nrows = 0
    /\ result' = Ok(<<>>)
    /\ pc' = "done"
    /\ UNCHANGED <<nrows, ncols, rows, map, output, dcall, dres>>

\* let mut output = Vec::with_capacity(rows.len());
EnterLoop ==
    /\ pc = "entry"
    /\ nrows # 0
    /\ output' = <<>>
    /\ pc' = "rows"
    /\ UNCHANGED <<nrows, ncols, rows, map, result, dcall, dres>>

\* for row in rows { let mut map = HashMap::new(); ...
NextRow ==
    /\ pc = "rows"
    /\ Len(rows) < nrows
    /\ \E n \in 0..(MaxCells - CellCount(rows)) :
          /\ ncols' = n
          /\ rows' = Append(rows, <<>>)
          /\ map' = EmptyMap
          /\ pc' = "cols"
    /\ UNCHANGED <<nrows, output, result, dcall, dres>>

\* for (i, column) in row.columns().iter().enumerate() { ... map.insert(..) }
NextColumn ==
    /\ pc = "cols"
    /\ Len(rows[Len(rows)]) < ncols
    /\ \E cell \in Cells :
          LET value_json == CellToJson(cell)
          IN  /\ rows' = ReadCell(rows, cell)
              /\ IF value_json.ok
                 THEN /\ map' = MapInsert(map, cell.name, value_json.val)
                      /\ UNCHANGED <<pc, result>>
                 ELSE /\ result' = Err(value_json.err)
                      /\ pc' = "done"
                      /\ UNCHANGED map
    /\ UNCHANGED <<nrows, ncols, output, dcall, dres>>

\* output.push(map);
EndRow ==
    /\ pc = "cols"
    /\ Len(rows[Len(rows)]) = ncols
    /\ output' = Push(output, map)
    /\ pc' = "rows"
    /\ UNCHANGED <<nrows, ncols, rows, map, result, dcall, dres>>

\* Ok(output)
ReturnOutput ==
    /\ pc = "rows"
    /\ Len(rows) = nrows
    /\ result' = Ok(output)
    /\ pc' = "done"
    /\ UNCHANGED <<nrows, ncols, rows, map, output, dcall, dres>>

Next == ReturnEmpty \/ EnterLoop \/ NextRow \/ NextColumn \/ EndRow \/ ReturnOutput

Spec == Init /\ [][Next]_vars

(***************************************************************************)
(* rows_to_json as a function of the whole argument.                       *)
(***************************************************************************)
RECURSIVE RowToMap(_, _)
\* the columns of one row folded into the map m, or the first error
RowToMap(row, m) ==
    IF row = <<>> THEN Ok(m)
    ELSE LET value_json == CellToJson(Head(row))
         IN  IF value_json.ok
             THEN RowToMap(Tail(row), MapInsert(m, Head(row).name, value_json.val))
             ELSE Err(value_json.err)

RECURSIVE RowsToOutput(_, _)
RowsToOutput(rs, out) ==
    IF rs = <<>> THEN Ok(out)
    ELSE LET m == RowToMap(Head(rs), EmptyMap)
         IN  IF m.ok THEN RowsToOutput(Tail(rs), Push(out, m.val)) ELSE Err(m.err)

rows_to_json(rs) == IF rs = <<>> THEN Ok(<<>>) ELSE RowsToOutput(rs, <<>>)

(***************************************************************************)
(* Direct calls of row_value_to_json.                                      *)
(***************************************************************************)
MaxBlobLen == 2

\* every literal of the match of row_value_to_json, as written there
DecodeTable ==
    {"CHAR", "VARCHAR", "TINYTEXT", "TEXT", "MEDIUMTEXT", "LONGTEXT", "ENUM",
     "FLOAT", "DOUBLE",
     "TINYINT", "SMALLINT", "INT", "MEDIUMINT", "BIGINT",
     "TINYINT UNSIGNED", "SMALLINT UNSIGNED", "INT UNSIGNED", "MEDIUMINT UNSIGNED",
     "BIGINT UNSIGNED", "YEAR",
     "BOOLEAN", "DATE", "TIME", "DATETIME", "TIMESTAMP", "JSON",
     "TINIYBLOB", "MEDIUMBLOB", "BLOB", "LONGBLOB",
     "NULL"}

\* type names the driver can report that the match does not list
OtherNames == {"TINYBLOB", "GEOMETRY", "DECIMAL", "varchar", "Int", "BIT", ""}

TypeNames == DecodeTable \cup OtherNames

ByteSamples == {0, 16, 255}

ByteStrings == UNION {[1..n -> ByteSamples] : n \in 0..MaxBlobLen} \cup {<<0, 255, 16>>}

\* 0, 7, 2024, 2^63 - 1, 2^63 (the i64 -2^63), 2^64 - 1 (the i64 -1)
Words == {SmallWord(0), SmallWord(7), SmallWord(2024),
          Word(LimbBase \div 2 - 1, LimbBase - 1, LimbBase - 1, LimbBase - 1),
          Word(LimbBase \div 2, 0, 0, 0),
          Word(LimbBase - 1, LimbBase - 1, LimbBase - 1, LimbBase - 1)}

JsonTexts == {"null", "\"a\"", "[1]", "{\"a\":1}", "{\"a\":"}

Floats == {[finite |-> TRUE, n |-> 1], [finite |-> FALSE, n |-> 0]}

Payloads ==
    {Payload("String", s) : s \in {"", "x"} \cup JsonTexts}
    \cup {Payload("f32", f) : f \in Floats}
    \cup {Payload("f64", f) : f \in Floats}
    \cup {Payload("i64", w) : w \in Words}
    \cup {Payload("u64", w) : w \in Words}
    \cup {Payload("bool", b) : b \in BOOLEAN}
    \cup {Payload("Date", [text |-> "2024-01-15"])}
    \cup {Payload("Time", [text |-> "12:30:00.0"])}
    \cup {Payload("PrimitiveDateTime", [text |-> "2024-01-15 12:30:00.0"])}
    \cup {Payload("OffsetDateTime", [text |-> "2024-01-15 12:30:00.0 +00:00:00"])}
    \cup {Payload("Vec<u8>", b) : b \in ByteStrings}
    \cup {Corrupt}

RawValues == [type_name : TypeNames, is_null : BOOLEAN, payload : Payloads]

InitDecode ==
    /\ pc = "entry"
    /\ nrows = 0
    /\ ncols = 0
    /\ rows = <<>>
    /\ map = EmptyMap
    /\ output = <<>>
    /\ result = NoResult
    /\ dcall \in RawValues
    /\ dres = NoResult

Decode ==
    /\ dres = NoResult
    /\ dres' = row_value_to_json(dcall)
    /\ UNCHANGED <<pc, nrows, ncols, rows, map, output, result, dcall>>

NextDecode == Decode

SpecDecode == InitDecode /\ [][NextDecode]_vars

(***************************************************************************)
(* Properties of row_value_to_json, under SpecDecode.                      *)
(***************************************************************************)
Returned == dres # NoResult

\* C1: a raw value whose null flag is set converts to Ok(JSON Null), whatever
\* type name it reports: listed in the match, not listed, or differently
\* cased; a null value never gives an unsupported-type error.
C1_NullIsJsonNull ==
    (Returned /\ dcall.is_null) => dres = Ok(JsonNull)

C1_Witness ==
    /\ Returned
    /\ dcall.is_null
    /\ dcall.type_name = "GEOMETRY"
    /\ dres = Ok(JsonNull)

\* C2: a non-null raw value gives an error exactly when its type name is not,
\* compared case-sensitively, one of the names of the match; the error text
\* is "Unsupported type: <name>"; a listed name gives Ok also when its typed
\* decode attempt fails.
C2_ErrorIffNotInTable ==
    (Returned /\ ~dcall.is_null) =>
        /\ (~dres.ok) <=> (dcall.type_name \notin DecodeTable)
        /\ (~dres.ok) => dres.err = "Unsupported type: " \o dcall.type_name
        /\ (dcall.type_name \in DecodeTable /\ dcall.payload = Corrupt) => dres.ok

C2_Witness ==
    /\ Returned
    /\ ~dcall.is_null
    /\ dcall.type_name = "varchar"
    /\ dcall.payload = Payload("String", "x")
    /\ dres = Err("Unsupported type: varchar")

\* C5: for each of the type names "TINYBLOB", "BLOB", "MEDIUMBLOB" and
\* "LONGBLOB", a non-null value whose payload decodes to the bytes b converts
\* to Ok(JSON Array) of length |b| whose i-th element is the Number b[i].
C5_BlobNamesGiveByteArray ==
    (/\ Returned
     /\ ~dcall.is_null
     /\ dcall.type_name \in {"TINYBLOB", "BLOB", "MEDIUMBLOB", "LONGBLOB"}
     /\ dcall.payload.ty = "Vec<u8>")
    => LET b == dcall.payload["Vec<u8>"]
       IN  /\ dres.ok
           /\ dres.val.t = "Array"
           /\ Len(dres.val.a) = Len(b)
           /\ \A i \in 1..Len(b) :
                /\ dres.val.a[i].t = "Number"
                /\ NumberValue(dres.val.a[i].n) = [neg |-> FALSE, mag |-> <<0, 0, 0, b[i]>>]

\* C9: a non-null "JSON" value converts to Ok with the payload parsed as JSON
\* and embedded as it is ({"a":1} gives the object with a = 1, not a String
\* holding the text); a payload that does not parse gives Ok(JSON Null).
C9_JsonEmbedded ==
    (Returned /\ ~dcall.is_null /\ dcall.type_name = "JSON") =>
        LET isText == dcall.payload.ty = "String"
            text == dcall.payload["String"]
        IN  /\ dres.ok
            /\ (isText /\ text = "{\"a\":1}") =>
                   dres.val = [t |-> "Object",
                               o |-> [k \in {"a"} |->
                                        [t |-> "Number", n |-> [k |-> "PosInt", w |-> <<0, 0, 0, 1>>]]]]
            /\ (isText /\ ParseJson(text).ok) =>
                   (dres.val = ParseJson(text).val /\ dres.val # [t |-> "String", s |-> text])
            /\ (~isText \/ ~ParseJson(text).ok) => dres.val = JsonNull

C9_Witness ==
    /\ Returned
    /\ ~dcall.is_null
    /\ dcall.type_name = "JSON"
    /\ dcall.payload = Payload("String", "{\"a\":1}")
    /\ dres.ok
    /\ dres.val.t = "Object"

\* C10: integers round-trip.  A value of a signed integer type that decodes
\* to the i64 v converts to the Number equal to v, -2^63 included; a value of
\* an unsigned integer type or YEAR that decodes to the u64 v converts to the
\* Number equal to v, 2^64 - 1 included.
C10_IntegersRoundTrip ==
    (Returned /\ ~dcall.is_null) =>
        /\ (/\ dcall.type_name \in {"TINYINT", "SMALLINT", "INT", "MEDIUMINT", "BIGINT"}
            /\ dcall.payload.ty = "i64")
           => /\ dres.ok
              /\ dres.val.t = "Number"
              /\ dres.val.n.k \in {"PosInt", "NegInt"}
              /\ NumberValue(dres.val.n) = SignedValue(dcall.payload["i64"])
        /\ (/\ dcall.type_name \in {"TINYINT UNSIGNED", "SMALLINT UNSIGNED", "INT UNSIGNED",
                                     "MEDIUMINT UNSIGNED", "BIGINT UNSIGNED", "YEAR"}
            /\ dcall.payload.ty = "u64")
           => /\ dres.ok
              /\ dres.val.t = "Number"
              /\ dres.val.n.k \in {"PosInt", "NegInt"}
              /\ NumberValue(dres.val.n) = UnsignedValue(dcall.payload["u64"])

\* BIGINT -2^63
C10_Witness ==
    /\ Returned
    /\ ~dcall.is_null
    /\ dcall.type_name = "BIGINT"
    /\ dcall.payload = Payload("i64", <<32768, 0, 0, 0>>)
    /\ dres.ok
    /\ dres.val.n.k = "NegInt"
    /\ NumberValue(dres.val.n) = [neg |-> TRUE, mag |-> <<32768, 0, 0, 0>>]

(***************************************************************************)
(* Properties of rows_to_json, under Spec.                                 *)
(***************************************************************************)
RECURSIVE Flatten(_)
Flatten(rs) == IF rs = <<>> THEN <<>> ELSE Head(rs) \o Flatten(Tail(rs))

\* the cells at which the conversion must stop: the raw value could not be
\* retrieved, or it is not null and its type name is not in the decode table
AccessFails(cell) == ~cell.raw.ok

Unsupported(cell) ==
    /\ cell.raw.ok
    /\ ~cell.raw.val.is_null
    /\ cell.raw.val.type_name \notin DecodeTable

Fails(cell) == AccessFails(cell) \/ Unsupported(cell)

ErrorOf(cell) ==
    IF AccessFails(cell) THEN cell.raw.err
    ELSE "Unsupported type: " \o cell.raw.val.type_name

\* C3: all or nothing.  The cells are read in row-major order; at the first
\* cell whose retrieval fails or whose type is unsupported the function
\* returns that cell's error, reads no later cell and returns no row map; it
\* returns Ok only when no cell failed, and then with every row.
C3_AllOrNothing ==
    LET cells == Flatten(rows)
        failed == {i \in 1..Len(cells) : Fails(cells[i])}
    IN  /\ pc # "done" => (failed = {} /\ result = NoResult)
        /\ pc = "done" =>
             IF failed = {}
             THEN /\ result.ok
                  /\ Len(result.val) = nrows
                  /\ Len(rows) = nrows
             ELSE /\ failed = {Len(cells)}
                  /\ result = Err(ErrorOf(cells[Len(cells)]))

C3_Witness ==
    /\ pc = "done"
    /\ ~result.ok
    /\ Len(rows) = 2
    /\ Len(output) = 1
    /\ DOMAIN output[1] = {"a", "b"}
    /\ Len(rows[2]) = 2
    /\ Unsupported(rows[2][2])

\* a cell of a listed type, not null, whose typed decode attempt fails
SoftFailed(cell) ==
    /\ cell.raw.ok
    /\ ~cell.raw.val.is_null
    /\ cell.raw.val.type_name \in DecodeTable \ {"NULL"}
    /\ cell.raw.val.payload = Corrupt

\* the same cell with a payload that decodes as its type
Repaired(cell) ==
    [cell EXCEPT !.raw.val.payload =
        IF cell.raw.val.type_name = "JSON" THEN Payload("String", "\"a\"")
        ELSE Payload("i64", SmallWord(7))]

LastOfName(row, j) == \A j2 \in (j + 1)..Len(row) : row[j2].name # row[j].name

\* C4: a soft-failed cell converts to JSON Null, does not make rows_to_json
\* fail, and every other entry of every row map is what it would be had the
\* cell decoded.
C4_SoftFailureIsolated ==
    pc = "done" =>
        \A i \in 1..Len(rows) : \A j \in 1..Len(rows[i]) :
            SoftFailed(rows[i][j]) =>
                LET name == rows[i][j].name
                    other == rows_to_json([rows EXCEPT ![i][j] = Repaired(@)])
                IN  /\ result.ok = other.ok
                    /\ ~result.ok => result = other
                    /\ result.ok =>
                         /\ Len(result.val) = Len(other.val)
                         /\ \A i2 \in 1..Len(result.val) :
                              /\ DOMAIN result.val[i2] = DOMAIN other.val[i2]
                              /\ \A k \in DOMAIN result.val[i2] :
                                   (i2 # i \/ k # name) => result.val[i2][k] = other.val[i2][k]
                         /\ LastOfName(rows[i], j) => result.val[i][name] = JsonNull

C4_Witness ==
    /\ pc = "done"
    /\ result.ok
    /\ Len(rows) = 2
    /\ Len(rows[1]) = 2
    /\ Len(rows[2]) = 2
    /\ rows[1][1] = [name |-> "a", raw |-> Ok(CorruptIntValue)]
    /\ rows[2][2] = [name |-> "b", raw |-> Ok(CorruptJsonValue)]
    /\ result.val[1] = [k \in {"a", "b"} |-> IF k = "a" THEN JsonNull ELSE JsonFromI64(SmallWord(7))]
    /\ result.val[2] = [k \in {"a", "b"} |-> IF k = "b" THEN JsonNull ELSE JsonFromI64(SmallWord(7))]

\* C6: on Ok the output has one map per input row, the i-th built from the
\* i-th row only; an empty input gives Ok(empty sequence).
C6_OneMapPerRowInOrder ==
    /\ (pc = "done" /\ nrows = 0) => result = Ok(<<>>)
    /\ (pc = "done" /\ result.ok) =>
          /\ Len(result.val) = nrows
          /\ Len(rows) = nrows
          /\ \A i \in 1..nrows : Ok(result.val[i]) = RowToMap(rows[i], EmptyMap)

C6_Witness ==
    /\ pc = "done"
    /\ result.ok
    /\ nrows = 2
    /\ Len(result.val) = 2
    /\ rows[1] # rows[2]
    /\ result.val[1] # result.val[2]

ColumnNamesOf(row) == {row[j].name : j \in 1..Len(row)}

\* C7 as stated: on Ok the map of row i has one entry per column of row i.
C7_OneEntryPerColumn ==
    (pc = "done" /\ result.ok) =>
        \A i \in 1..Len(result.val) :
            /\ DOMAIN result.val[i] = ColumnNamesOf(rows[i])
            /\ Cardinality(DOMAIN result.val[i]) = Len(rows[i])

\* C7 amended: on Ok every column's name is a key of its row's map and the
\* map has one entry per distinct column name; the last column of a name, when
\* null or soft-failed, is present under that name with JSON Null.
C7_OneEntryPerColumnName ==
    (pc = "done" /\ result.ok) =>
        \A i \in 1..Len(result.val) :
            /\ DOMAIN result.val[i] = ColumnNamesOf(rows[i])
            /\ Cardinality(DOMAIN result.val[i]) = Cardinality(ColumnNamesOf(rows[i]))
            /\ \A j \in 1..Len(rows[i]) :
                 (/\ LastOfName(rows[i], j)
                  /\ (rows[i][j].raw.val.is_null \/ SoftFailed(rows[i][j])))
                 => result.val[i][rows[i][j].name] = JsonNull

C7_Witness ==
    /\ pc = "done"
    /\ result.ok
    /\ Len(rows) = 1
    /\ Len(rows[1]) = 3
    /\ rows[1][1].name = rows[1][3].name
    /\ rows[1][3].raw.val.is_null
    /\ Cardinality(DOMAIN result.val[1]) = 2

\* C8: column names are the keys, verbatim; of the columns of a row sharing a
\* name the map holds the decoded value of the last one; the overwrite is no
\* error and leaves the entries of other names alone.
C8_LaterColumnOverwrites ==
    (pc = "done" /\ result.ok) =>
        \A i \in 1..Len(result.val) :
            /\ DOMAIN result.val[i] = ColumnNamesOf(rows[i])
            /\ \A j \in 1..Len(rows[i]) :
                 LastOfName(rows[i], j) =>
                    Ok(result.val[i][rows[i][j].name]) = row_value_to_json(rows[i][j].raw.val)

C8_Witness ==
    /\ pc = "done"
    /\ result.ok
    /\ Len(rows) = 1
    /\ Len(rows[1]) = 3
    /\ rows[1][1] = [name |-> "a", raw |-> Ok(IntValue)]
    /\ rows[1][2] = [name |-> "b", raw |-> Ok(IntValue)]
    /\ rows[1][3] = [name |-> "a", raw |-> Ok(NullGeometryValue)]
    /\ result.val[1] = [k \in {"a", "b"} |-> IF k = "a" THEN JsonNull ELSE JsonFromI64(SmallWord(7))]

====
